---- MODULE Spec2Model ----
(***************************************************************************)
(* Model of lib/pam (build tag pam,cgo): the package level handle registry *)
(* (handlerMu, handlerCount, handlers), the conversation callbacks         *)
(* writeCallback / readCallback, and the PAM transaction driven by Open    *)
(* and PAM.Close.                                                          *)
(*                                                                         *)
(* Every session p of Sess is one PAM value with the host thread that      *)
(* calls Open and Close on it.  Every element of CbThreads is a thread of  *)
(* the native library that invokes the exported callbacks.  A native call  *)
(* stays outstanding for a state of its own, so that callbacks and the     *)
(* other sessions interleave with it; the library chooses its status.      *)
(* Statements that touch only the session of the running thread are taken  *)
(* together with the step before them.                                     *)
(***************************************************************************)
EXTENDS Integers, Sequences, FiniteSets, TLC

\* ---- bounds of the model ------------------------------------------------
NSess == 2          \* sessions (and their host threads)
NCbThreads == 1     \* native threads issuing conversation callbacks
MaxOps == 3         \* Open, Close and callback invocations in one behaviour
MaxLen == 5         \* characters in a native message or on the input stream
MaxChunks == 2      \* Read calls in which the input stream hands over its data
MaxChunkLen == 2    \* characters one Read call of the input stream returns
MaxReads == 3       \* read callbacks on the one session
PAM_MAX_MSG_SIZE == 4   \* C.PAM_MAX_MSG_SIZE, scaled down
PAM_MAX_RESP_SIZE == 3  \* C.PAM_MAX_RESP_SIZE, scaled down

Sess == 1..NSess
CbThreads == 1..NCbThreads

\* ---- program constants ---------------------------------------------------
PAM_SUCCESS == 0
PAM_SYSTEM_ERR == 4
NativeRet == {PAM_SUCCESS, PAM_SYSTEM_ERR}

Stdout == 1
Stderr == 2
Streams == {Stdout, Stderr}

\* a *Config argument of Open: absent, or a configuration
NilConfig == "nil"
SomeConfig == "config"
Configs == {NilConfig, SomeConfig}

\* what _pam_strerror returns: NULL or a message
NullStr == "NULL"
MsgStr == "msg"
StrErrors == {NullStr, MsgStr}

\* error values
NoError == "nil"
ErrConfig == "BadParameter: PAM configuration is required."
ErrNative == "BadParameter: pam_strerror"

\* the native functions reached through the library handle
FnStart == "_pam_start"
FnAuthenticate == "_pam_authenticate"
FnAcctMgmt == "_pam_acct_mgmt"
FnOpenSession == "_pam_open_session"
FnCloseSession == "_pam_close_session"
FnEnd == "_pam_end"
FnStrError == "_pam_strerror"

Pending == -1       \* status of a native call that has not returned

\* owners of handlerMu
Nobody == <<"free", 0>>
Host(p) == <<"host", p>>
Native(t) == <<"cb", t>>

VARIABLES
    handlerMu,      \* owner of the registry lock
    handlerCount,   \* last id handed out
    handlers,       \* the registry: id -> session
    pc,             \* position of the host thread of each session
    config,         \* the argument Open was called with
    pam,            \* the fields of each *PAM
    allocs,         \* native allocations made for each session
    frees,          \* C.free calls made on each native allocation
    calls,          \* native calls issued for each session, in order
    openRes,        \* what Open returned
    closeRes,       \* what each Close returned, in order
    cb,             \* the callback each native thread is running
    ops,            \* Open, Close and callback invocations so far
    writes,         \* Write calls made on each session's output streams
    reads,          \* reads made on each session's input stream
    deleted,        \* ids on which unregisterHandler has run
    pamHandle,      \* what dlopen returned in init
    systemHasPAM,   \* the package variable of that name
    text,           \* one message or input line on its way through a callback
    stdin           \* a session's input stream and what was read from it

vars == <<handlerMu, handlerCount, handlers, pc, config, pam, allocs, frees,
          calls, openRes, closeRes, cb, ops, writes, reads, deleted,
          pamHandle, systemHasPAM, text, stdin>>

hostVars == <<pc, config, pam, allocs, frees, calls, openRes, closeRes>>
regVars == <<handlerMu, handlerCount, handlers, deleted>>
cbVars == <<cb, ops>>
ioVars == <<writes, reads>>
libVars == <<pamHandle, systemHasPAM>>
textVars == <<text, stdin>>

\* ---- the registry ---------------------------------------------------------

\* handlers[index], the comma-ok form
HasHandler(h, index) == index \in DOMAIN h

\* a registerHandler that hands out the id without storing the handler
MapPut_Drop(h, id, p) == h

\* handlers[id] = p
MapPut(h, id, p) == [k \in DOMAIN h \cup {id} |-> IF k = id THEN p ELSE h[k]]

\* a delete that drops every entry
MapDelete_Clear(h, id) == [k \in {} |-> h[k]]

\* delete(handlers, id)
MapDelete(h, id) == [k \in DOMAIN h \ {id} |-> h[k]]

\* a Lock that never waits
MuFree_NoLock(mu) == TRUE

\* handlerMu.Lock() can proceed
MuFree(mu) == mu = Nobody

\* a counter that hands out the id 1 again and again
NextHandlerCount_Stuck(c) == 1

\* handlerCount = handlerCount + 1
NextHandlerCount(c) == c + 1

\* ---- codeToError ----------------------------------------------------------

\* the error built from the text _pam_strerror returned
codeToError(str) == IF str # NullStr THEN ErrNative ELSE NoError

\* ---- the library loader ----------------------------------------------------

\* what C.dlopen returns: nil or a handle
NullHandle == "nil"
LibHandle == "libpam"
Handles == {NullHandle, LibHandle}

\* var buildHasPAM bool = true
buildHasPAM == TRUE

\* an init that reports the library whatever dlopen returned
initSystemHasPAM_Always(h) == TRUE

\* init: systemHasPAM, false at first, is set to true if pamHandle != nil
initSystemHasPAM(h) == h # NullHandle

\* BuildHasPAM() and SystemHasPAM(): the values they return
BuildHasPAM == buildHasPAM
SystemHasPAM == systemHasPAM

\* an input stream nothing is read from
NoStdin == [all |-> <<>>, pending |-> <<>>, got |-> <<>>]

\* no message is on its way
NoText == [stage |-> "none", src |-> <<>>, str |-> <<>>, out |-> <<>>, err |-> FALSE]

\* ---- PAM values -----------------------------------------------------------
NilPAM == [pamh |-> "nil", conv |-> 0, retval |-> 0, handlerIndex |-> 0]

NoAlloc == [conv |-> 0, service_name |-> 0, user |-> 0]

IdleCb == [pc |-> "idle", kind |-> "none", index |-> 0, stream |-> Stdout,
           handle |-> 0, res |-> "none", err |-> FALSE]

InitProcess ==
    /\ handlerMu = Nobody
    /\ handlerCount = 0
    /\ handlers = <<>>
    /\ pc = [p \in Sess |-> "init"]
    /\ config = [p \in Sess |-> NilConfig]
    /\ pam = [p \in Sess |-> NilPAM]
    /\ allocs = [p \in Sess |-> NoAlloc]
    /\ frees = [p \in Sess |-> NoAlloc]
    /\ calls = [p \in Sess |-> <<>>]
    /\ openRes = [p \in Sess |-> [returned |-> FALSE, session |-> FALSE, err |-> NoError]]
    /\ closeRes = [p \in Sess |-> <<>>]
    /\ cb = [t \in CbThreads |-> IdleCb]
    /\ ops = 0
    /\ writes = [p \in Sess |-> [s \in Streams |-> 0]]
    /\ reads = [p \in Sess |-> 0]
    /\ deleted = {}
    /\ pamHandle \in Handles
    /\ systemHasPAM = initSystemHasPAM(pamHandle)

\* the process after package initialisation, no callback text under way
Init ==
    /\ InitProcess
    /\ text = NoText
    /\ stdin = NoStdin


\* ---- native calls ---------------------------------------------------------

\* the record of a native call op issues: op is 0 for Open and k for the
\* k-th Close of the session
Call(fn, arg, op) == [fn |-> fn, arg |-> arg, ret |-> Pending, op |-> op, str |-> ""]

\* the outstanding call of cs has returned r
Returned(cs, r) == [cs EXCEPT ![Len(cs)].ret = r]

\* cs after codeToError(r) has looked the text up and got str
WithStrError(cs, r, str, op) ==
    Append(cs, [fn |-> FnStrError, arg |-> r, ret |-> PAM_SUCCESS, op |-> op, str |-> str])

\* Open opening the session before the account check
OpenSequence_Swapped == <<FnStart, FnOpenSession, FnAcctMgmt>>

\* Open authenticating where it checks the account
OpenSequence_Auth == <<FnStart, FnAuthenticate, FnOpenSession>>

\* the native calls Open issues, in order
OpenSequence == <<FnStart, FnAcctMgmt, FnOpenSession>>

\* a Close that ends the transaction before it closes the session
CloseSequence_Swapped == <<FnEnd, FnCloseSession>>

\* the native calls Close issues, in order
CloseSequence == <<FnCloseSession, FnEnd>>

\* ---- Open -----------------------------------------------------------------

\* an Open that does not check its argument
ConfigIsNil_Never(cfg) == FALSE

\* config == nil
ConfigIsNil(cfg) == cfg = NilConfig

\* Open up to the call of registerHandler: the check of config, the PAM
\* value and the two C.CString copies; the sessions are numbered in the
\* order Open is called
Open(p, cfg) ==
    /\ pc[p] = "init"
    /\ \A q \in 1..(p - 1) : pc[q] # "init"
    /\ ops < MaxOps
    /\ config' = [config EXCEPT ![p] = cfg]
    /\ IF ConfigIsNil(cfg)
       THEN /\ openRes' = [openRes EXCEPT ![p] =
                  [returned |-> TRUE, session |-> FALSE, err |-> ErrConfig]]
            /\ pc' = [pc EXCEPT ![p] = "failed"]
            /\ UNCHANGED <<pam, allocs>>
       ELSE /\ pam' = [pam EXCEPT ![p] = NilPAM]
            /\ allocs' = [allocs EXCEPT ![p].service_name = 1, ![p].user = 1]
            /\ pc' = [pc EXCEPT ![p] = "reg_lock"]
            /\ UNCHANGED openRes
    /\ UNCHANGED <<frees, calls, closeRes>>
    /\ ops' = ops + 1
    /\ UNCHANGED <<regVars, cb, ioVars>>
    /\ UNCHANGED <<libVars, textVars>>

\* registerHandler: handlerMu.Lock()
RegisterLock(p) ==
    /\ pc[p] = "reg_lock"
    /\ MuFree(handlerMu)
    /\ handlerMu' = Host(p)
    /\ pc' = [pc EXCEPT ![p] = "reg_count"]
    /\ UNCHANGED <<handlerCount, handlers, deleted>>
    /\ UNCHANGED <<config, pam, allocs, frees, calls, openRes, closeRes>>
    /\ UNCHANGED <<cbVars, ioVars>>
    /\ UNCHANGED <<libVars, textVars>>

\* registerHandler: handlerCount = handlerCount + 1
RegisterCount(p) ==
    /\ pc[p] = "reg_count"
    /\ handlerCount' = NextHandlerCount(handlerCount)
    /\ pc' = [pc EXCEPT ![p] = "reg_store"]
    /\ UNCHANGED <<handlerMu, handlers, deleted>>
    /\ UNCHANGED <<config, pam, allocs, frees, calls, openRes, closeRes>>
    /\ UNCHANGED <<cbVars, ioVars>>
    /\ UNCHANGED <<libVars, textVars>>

\* registerHandler: p.conv = C.make_pam_conv(C.int(handlerCount)) and
\* handlers[handlerCount] = p
RegisterStore(p) ==
    /\ pc[p] = "reg_store"
    /\ pam' = [pam EXCEPT ![p].conv = handlerCount]
    /\ allocs' = [allocs EXCEPT ![p].conv = @ + 1]
    /\ handlers' = MapPut(handlers, handlerCount, p)
    /\ pc' = [pc EXCEPT ![p] = "reg_return"]
    /\ UNCHANGED <<handlerMu, handlerCount, deleted>>
    /\ UNCHANGED <<config, frees, calls, openRes, closeRes>>
    /\ UNCHANGED <<cbVars, ioVars>>
    /\ UNCHANGED <<libVars, textVars>>

\* an Open that hands its session back although the native call failed
OpenFail_Session(p, r, str) ==
    /\ calls' = [calls EXCEPT ![p] = WithStrError(Returned(@, r), r, str, 0)]
    /\ openRes' = [openRes EXCEPT ![p] =
           [returned |-> TRUE, session |-> TRUE, err |-> codeToError(str)]]
    /\ pc' = [pc EXCEPT ![p] = "opened"]

\* return nil, p.codeToError(r) in Open, the native call having returned r
OpenFail(p, r, str) ==
    /\ calls' = [calls EXCEPT ![p] = WithStrError(Returned(@, r), r, str, 0)]
    /\ openRes' = [openRes EXCEPT ![p] =
           [returned |-> TRUE, session |-> FALSE, err |-> codeToError(str)]]
    /\ pc' = [pc EXCEPT ![p] = "failed"]

\* registerHandler: return handlerCount and the deferred Unlock; Open keeps
\* the id in p.handlerIndex and calls
\* C._pam_start(pamHandle, p.service_name, p.user, p.conv, &p.pamh)
RegisterReturn(p) ==
    /\ pc[p] = "reg_return"
    /\ pam' = [pam EXCEPT ![p].handlerIndex = handlerCount]
    /\ handlerMu' = Nobody
    /\ calls' = [calls EXCEPT ![p] = Append(@, Call(OpenSequence[1], 0, 0))]
    /\ pc' = [pc EXCEPT ![p] = "in_start"]
    /\ UNCHANGED <<handlerCount, handlers, deleted>>
    /\ UNCHANGED <<config, allocs, frees, openRes, closeRes>>
    /\ UNCHANGED <<cbVars, ioVars>>
    /\ UNCHANGED <<libVars, textVars>>

\* Open: _pam_start returns r, kept in p.retval; on success Open calls
\* C._pam_acct_mgmt(pamHandle, p.pamh, 0)
StartReturn(p, r, str) ==
    /\ pc[p] = "in_start"
    /\ pam' = [pam EXCEPT ![p].retval = r,
                          ![p].pamh = IF r = PAM_SUCCESS THEN "live" ELSE "nil"]
    /\ IF r # PAM_SUCCESS
       THEN OpenFail(p, r, str)
       ELSE /\ calls' = [calls EXCEPT ![p] = Append(Returned(@, r), Call(OpenSequence[2], 0, 0))]
            /\ pc' = [pc EXCEPT ![p] = "in_acct_mgmt"]
            /\ UNCHANGED openRes
    /\ UNCHANGED <<config, allocs, frees, closeRes>>
    /\ UNCHANGED <<regVars, cbVars, ioVars>>
    /\ UNCHANGED <<libVars, textVars>>

\* Open: _pam_acct_mgmt returns r, kept in a local; on success Open calls
\* C._pam_open_session(pamHandle, p.pamh, 0)
AcctMgmtReturn(p, r, str) ==
    /\ pc[p] = "in_acct_mgmt"
    /\ IF r # PAM_SUCCESS
       THEN OpenFail(p, r, str)
       ELSE /\ calls' = [calls EXCEPT ![p] = Append(Returned(@, r), Call(OpenSequence[3], 0, 0))]
            /\ pc' = [pc EXCEPT ![p] = "in_open_session"]
            /\ UNCHANGED openRes
    /\ UNCHANGED <<config, pam, allocs, frees, closeRes>>
    /\ UNCHANGED <<regVars, cbVars, ioVars>>
    /\ UNCHANGED <<libVars, textVars>>

\* Open: _pam_open_session returns r, kept in p.retval; return p, nil
OpenSessionReturn(p, r, str) ==
    /\ pc[p] = "in_open_session"
    /\ pam' = [pam EXCEPT ![p].retval = r]
    /\ IF r # PAM_SUCCESS
       THEN OpenFail(p, r, str)
       ELSE /\ calls' = [calls EXCEPT ![p] = Returned(@, r)]
            /\ openRes' = [openRes EXCEPT ![p] =
                   [returned |-> TRUE, session |-> TRUE, err |-> NoError]]
            /\ pc' = [pc EXCEPT ![p] = "opened"]
    /\ UNCHANGED <<config, allocs, frees, closeRes>>
    /\ UNCHANGED <<regVars, cbVars, ioVars>>
    /\ UNCHANGED <<libVars, textVars>>

\* ---- Close ----------------------------------------------------------------

\* the number of the Close that is running, or that runs next, on p
CloseOp(p) == Len(closeRes[p]) + 1

\* return p.codeToError(r) in Close, the native call having returned r
CloseFail(p, r, str) ==
    /\ calls' = [calls EXCEPT ![p] = WithStrError(Returned(@, r), r, str, CloseOp(p))]
    /\ closeRes' = [closeRes EXCEPT ![p] = Append(@, codeToError(str))]
    /\ pc' = [pc EXCEPT ![p] = "opened"]

\* Close: C._pam_close_session(pamHandle, p.pamh, 0); the caller holds the
\* session Open returned and may call Close on it again after Close returned
CloseSessionCall(p) ==
    /\ pc[p] = "opened"
    /\ ops < MaxOps
    /\ calls' = [calls EXCEPT ![p] = Append(@, Call(CloseSequence[1], 0, CloseOp(p)))]
    /\ pc' = [pc EXCEPT ![p] = "in_close_session"]
    /\ UNCHANGED <<config, pam, allocs, frees, openRes, closeRes>>
    /\ ops' = ops + 1
    /\ UNCHANGED <<regVars, cb, ioVars>>
    /\ UNCHANGED <<libVars, textVars>>

\* Close: _pam_close_session returns r, kept in p.retval; on success Close
\* calls C._pam_end(pamHandle, p.pamh, p.retval)
CloseSessionReturn(p, r, str) ==
    /\ pc[p] = "in_close_session"
    /\ pam' = [pam EXCEPT ![p].retval = r]
    /\ IF r # PAM_SUCCESS
       THEN CloseFail(p, r, str)
       ELSE /\ calls' = [calls EXCEPT ![p] =
                   Append(Returned(@, r), Call(CloseSequence[2], pam'[p].retval, CloseOp(p)))]
            /\ pc' = [pc EXCEPT ![p] = "in_end"]
            /\ UNCHANGED closeRes
    /\ UNCHANGED <<config, allocs, frees, openRes>>
    /\ UNCHANGED <<regVars, cbVars, ioVars>>
    /\ UNCHANGED <<libVars, textVars>>

\* Close: _pam_end returns r, kept in a local; on success Close calls C.free
\* on p.conv, p.service_name and p.user and goes on to unregisterHandler
EndReturn(p, r, str) ==
    /\ pc[p] = "in_end"
    /\ IF r # PAM_SUCCESS
       THEN /\ CloseFail(p, r, str)
            /\ UNCHANGED <<pam, frees>>
       ELSE /\ calls' = [calls EXCEPT ![p] = Returned(@, r)]
            /\ pam' = [pam EXCEPT ![p].pamh = "ended"]
            /\ frees' = [frees EXCEPT ![p].conv = @ + 1,
                                      ![p].service_name = @ + 1,
                                      ![p].user = @ + 1]
            /\ pc' = [pc EXCEPT ![p] = "unreg_lock"]
            /\ UNCHANGED closeRes
    /\ UNCHANGED <<config, allocs, openRes>>
    /\ UNCHANGED <<regVars, cbVars, ioVars>>
    /\ UNCHANGED <<libVars, textVars>>

\* unregisterHandler: handlerMu.Lock()
UnregisterLock(p) ==
    /\ pc[p] = "unreg_lock"
    /\ MuFree(handlerMu)
    /\ handlerMu' = Host(p)
    /\ pc' = [pc EXCEPT ![p] = "unreg_delete"]
    /\ UNCHANGED <<handlerCount, handlers, deleted>>
    /\ UNCHANGED <<config, pam, allocs, frees, calls, openRes, closeRes>>
    /\ UNCHANGED <<cbVars, ioVars>>
    /\ UNCHANGED <<libVars, textVars>>

\* unregisterHandler: delete(handlers, handlerIndex), the deferred Unlock,
\* and return nil in Close
UnregisterDelete(p) ==
    /\ pc[p] = "unreg_delete"
    /\ handlers' = MapDelete(handlers, pam[p].handlerIndex)
    /\ deleted' = deleted \cup {pam[p].handlerIndex}
    /\ handlerMu' = Nobody
    /\ closeRes' = [closeRes EXCEPT ![p] = Append(@, NoError)]
    /\ pc' = [pc EXCEPT ![p] = "opened"]
    /\ UNCHANGED handlerCount
    /\ UNCHANGED <<config, pam, allocs, frees, calls, openRes>>
    /\ UNCHANGED <<cbVars, ioVars>>
    /\ UNCHANGED <<libVars, textVars>>

\* ---- the conversation callbacks --------------------------------------------

\* the index a callback presents: a registered id, a stale one, or one that
\* was never handed out
Indexes == 1..(NSess + 1)

\* the message styles the conversation function forwards to writeCallback
PAM_ERROR_MSG == "PAM_ERROR_MSG"
PAM_TEXT_INFO == "PAM_TEXT_INFO"
Styles == {PAM_ERROR_MSG, PAM_TEXT_INFO}

\* the stream argument the conversation function passes for a style
StreamOfStyle(style) == IF style = PAM_ERROR_MSG THEN Stderr ELSE Stdout

\* a writeStream that writes everything to stdout
Writer_Stdout(stream) == Stdout

\* writeStream: the stream the text goes to
Writer(stream) == IF stream = Stderr THEN Stderr ELSE Stdout

\* a callback that goes on without a handler and uses the nil handle
CallbackInvoke_NoReturn(t, kind, index, stream) ==
    /\ cb[t].pc = "idle"
    /\ ops < MaxOps
    /\ kind = "read" => stream = Stdout
    /\ MuFree(handlerMu)
    /\ IF HasHandler(handlers, index)
       THEN /\ cb' = [cb EXCEPT ![t] = [pc |-> "io", kind |-> kind, index |-> index,
                                        stream |-> stream, handle |-> handlers[index],
                                        res |-> "none", err |-> FALSE]]
            /\ handlerMu' = Native(t)
       ELSE /\ cb' = [cb EXCEPT ![t] = [IdleCb EXCEPT !.kind = kind, !.index = index,
                                                       !.res = "panic"]]
            /\ handlerMu' = Nobody
    /\ ops' = ops + 1
    /\ UNCHANGED <<handlerCount, handlers, deleted>>
    /\ UNCHANGED <<hostVars, ioVars>>
    /\ UNCHANGED <<libVars, textVars>>

\* the native library calls writeCallback(index, stream, s) or
\* readCallback(index, e) on thread t: handlerMu.Lock(), then
\* handle, ok := handlers[int(index)]; without a handler the callback logs
\* and returns (nil for a read) and the deferred Unlock runs, with one it
\* goes on to the stream, the lock held
CallbackInvoke(t, kind, index, stream) ==
    /\ cb[t].pc = "idle"
    /\ ops < MaxOps
    /\ kind = "read" => stream = Stdout
    /\ MuFree(handlerMu)
    /\ IF HasHandler(handlers, index)
       THEN /\ cb' = [cb EXCEPT ![t] = [pc |-> "io", kind |-> kind, index |-> index,
                                        stream |-> stream, handle |-> handlers[index],
                                        res |-> "none", err |-> FALSE]]
            /\ handlerMu' = Native(t)
       ELSE /\ cb' = [cb EXCEPT ![t] = [IdleCb EXCEPT !.kind = kind, !.index = index,
                                                       !.res = "nohandler"]]
            /\ handlerMu' = Nobody
    /\ ops' = ops + 1
    /\ UNCHANGED <<handlerCount, handlers, deleted>>
    /\ UNCHANGED <<hostVars, ioVars>>
    /\ UNCHANGED <<libVars, textVars>>

\* a readCallback that hands back a string whether or not the read failed
readCallbackResult_Ignore(err) == "line"

\* readCallback: nil if readStream returned an error, else the C string
readCallbackResult(err) == IF err THEN "nil" ELSE "line"

\* writeCallback: handle.writeStream(int(stream), str) completes, the
\* callback returns and the deferred Unlock runs
CallbackWrite(t) ==
    /\ cb[t].pc = "io"
    /\ cb[t].kind = "write"
    /\ writes' = [writes EXCEPT ![cb[t].handle][Writer(cb[t].stream)] = @ + 1]
    /\ cb' = [cb EXCEPT ![t] = [IdleCb EXCEPT !.res = "written"]]
    /\ handlerMu' = Nobody
    /\ UNCHANGED <<handlerCount, handlers, deleted, ops, reads>>
    /\ UNCHANGED hostVars
    /\ UNCHANGED <<libVars, textVars>>

\* readCallback: handle.readStream(echo) completes with a line or with an
\* error, the callback returns the C string or nil and the deferred Unlock
\* runs
CallbackRead(t, ok) ==
    /\ cb[t].pc = "io"
    /\ cb[t].kind = "read"
    /\ reads' = [reads EXCEPT ![cb[t].handle] = @ + 1]
    /\ cb' = [cb EXCEPT ![t] = [IdleCb EXCEPT !.err = ~ok,
                                               !.res = readCallbackResult(~ok)]]
    /\ handlerMu' = Nobody
    /\ UNCHANGED <<handlerCount, handlers, deleted, ops, writes>>
    /\ UNCHANGED hostVars
    /\ UNCHANGED <<libVars, textVars>>

\* BuildHasPAM() or SystemHasPAM() is called: each returns its package
\* variable and touches nothing
CapabilityQuery ==
    /\ BuildHasPAM \in BOOLEAN
    /\ SystemHasPAM \in BOOLEAN
    /\ UNCHANGED vars

\* ---- the text a callback carries ------------------------------------------

\* the characters: two ordinary ones, newline, carriage return; NUL ends a
\* C string and is no character of one
LF == "LF"
CR == "CR"
NUL == "NUL"
Chars == {"a", "b", LF, CR}

\* the strings of at most n characters
Strings(n) == UNION {[1..k -> Chars] : k \in 0..n}

\* a strnlen that is strlen
strnlen_NoCap(s, maxlen) == Len(s)

\* C.strnlen(s, maxlen)
strnlen(s, maxlen) == IF Len(s) < maxlen THEN Len(s) ELSE maxlen

\* C.GoStringN(s, n): the first n bytes of s
GoStringN(s, n) == SubSeq(s, 1, n)

\* a Replace that stops after the first newline
Replace_First(s) ==
    LET f[i \in 0..Len(s)] ==
            IF i = 0 THEN <<>>
            ELSE f[i - 1] \o (IF s[i] = LF /\ \A j \in 1..(i - 1) : s[j] # LF
                              THEN <<CR, LF>> ELSE <<s[i]>>)
    IN  f[Len(s)]

\* bytes.Replace([]byte(s), []byte("\n"), []byte("\r\n"), -1)
Replace(s) ==
    LET f[i \in 0..Len(s)] ==
            IF i = 0 THEN <<>>
            ELSE f[i - 1] \o (IF s[i] = LF THEN <<CR, LF>> ELSE <<s[i]>>)
    IN  f[Len(s)]

\* reader.ReadString('\n') fails: the stream ends before a newline
ReadStringErr(s) == \A i \in 1..Len(s) : s[i] # LF

\* reader.ReadString('\n'): the input up to and including the first newline
ReadString(s) ==
    SubSeq(s, 1, CHOOSE i \in 1..Len(s) : s[i] = LF /\ \A j \in 1..(i - 1) : s[j] # LF)

\* a readCallback that leaves no room for the terminator
capResponse_NoRoom(s, n) == IF Len(s) > n THEN SubSeq(s, 1, n) ELSE s

\* readCallback: s[:n-1] if len(s) > n-1, else s
capResponse(s, n) == IF Len(s) > n - 1 THEN SubSeq(s, 1, n - 1) ELSE s

\* C.CString(s): a copy of s with the terminator added
CString(s) == Append(s, NUL)

\* writeCallback is entered with a message, or readCallback with some input
\* waiting on stdin
TextInputs ==
    {[NoText EXCEPT !.stage = k, !.src = m] : k \in {"message", "stdin"}, m \in Strings(MaxLen)}

\* writeCallback: str := C.GoStringN(s, C.int(C.strnlen(s, C.PAM_MAX_MSG_SIZE)))
writeCallbackCap ==
    /\ text.stage = "message"
    /\ text' = [text EXCEPT !.stage = "capped",
                            !.str = GoStringN(text.src, strnlen(text.src, PAM_MAX_MSG_SIZE))]
    /\ UNCHANGED <<hostVars, regVars, cbVars, ioVars, libVars, stdin>>

\* writeStream: writer.Write(bytes.Replace(...)) of the capped string
writeStream ==
    /\ text.stage = "capped"
    /\ text' = [text EXCEPT !.stage = "written", !.out = Replace(text.str)]
    /\ UNCHANGED <<hostVars, regVars, cbVars, ioVars, libVars, stdin>>

\* readStream: a fresh bufio.Reader on stdin and ReadString('\n'); on an
\* error the text read so far is dropped
readStream ==
    /\ text.stage = "stdin"
    /\ text' = [text EXCEPT !.stage = "read",
                            !.err = ReadStringErr(text.src),
                            !.str = IF ReadStringErr(text.src) THEN <<>>
                                    ELSE ReadString(text.src)]
    /\ UNCHANGED <<hostVars, regVars, cbVars, ioVars, libVars, stdin>>

\* readCallback: nil on an error, else the C string of the capped line
readCallbackReturn ==
    /\ text.stage = "read"
    /\ text' = [text EXCEPT !.stage = "returned",
                            !.out = IF text.err THEN <<>>
                                    ELSE CString(capResponse(text.str, PAM_MAX_RESP_SIZE))]
    /\ UNCHANGED <<hostVars, regVars, cbVars, ioVars, libVars, stdin>>

\* ---- successive reads of one input stream --------------------------------

\* the characters on the input stream
StdinChars == {"a", "b", LF}

\* what one Read call of p.stdin can return: at least one character
Chunks == UNION {[1..k -> StdinChars] : k \in 1..MaxChunkLen}

\* the input stream: the data of its successive Read calls, then EOF
Chunkings == UNION {[1..n -> Chunks] : n \in 0..MaxChunks}

\* the first k chunks, one after the other
Flatten(cs, k) ==
    LET f[i \in 0..k] == IF i = 0 THEN <<>> ELSE f[i - 1] \o cs[i]
    IN  f[k]

\* bufio.Reader: the number of Read calls ReadString makes on the stream
\* before its buffer holds a newline
FillCount(cs) ==
    CHOOSE k \in 1..Len(cs) :
        /\ ~ReadStringErr(Flatten(cs, k))
        /\ \A j \in 1..(k - 1) : ReadStringErr(Flatten(cs, j))

\* one session's stdin before its first read callback
StdinInputs == {[all |-> cs, pending |-> cs, got |-> <<>>] : cs \in Chunkings}

\* readStream, one whole call: reader := bufio.NewReader(p.stdin) fills its
\* buffer Read call by Read call until it holds a newline and returns the
\* text up to it; the reader, and what else it holds, is dropped on return.
\* At EOF the call returns "" and the error.
readStreamNext ==
    /\ Len(stdin.got) < MaxReads
    /\ IF ReadStringErr(Flatten(stdin.pending, Len(stdin.pending)))
       THEN stdin' = [stdin EXCEPT !.pending = <<>>,
                                   !.got = Append(@, [str |-> <<>>, err |-> TRUE])]
       ELSE LET k == FillCount(stdin.pending)
            IN  stdin' = [stdin EXCEPT
                    !.pending = SubSeq(@, k + 1, Len(@)),
                    !.got = Append(@, [str |-> ReadString(Flatten(stdin.pending, k)),
                                       err |-> FALSE])]
    /\ UNCHANGED <<hostVars, regVars, cbVars, ioVars, libVars, text>>

\* ---- the specification ------------------------------------------------------

Next ==
    \/ \E p \in Sess, cfg \in Configs : Open(p, cfg)
    \/ \E p \in Sess : RegisterLock(p)
    \/ \E p \in Sess : RegisterCount(p)
    \/ \E p \in Sess : RegisterStore(p)
    \/ \E p \in Sess : RegisterReturn(p)
    \/ \E p \in Sess, r \in NativeRet, str \in StrErrors : StartReturn(p, r, str)
    \/ \E p \in Sess, r \in NativeRet, str \in StrErrors : AcctMgmtReturn(p, r, str)
    \/ \E p \in Sess, r \in NativeRet, str \in StrErrors : OpenSessionReturn(p, r, str)
    \/ \E p \in Sess : CloseSessionCall(p)
    \/ \E p \in Sess, r \in NativeRet, str \in StrErrors : CloseSessionReturn(p, r, str)
    \/ \E p \in Sess, r \in NativeRet, str \in StrErrors : EndReturn(p, r, str)
    \/ \E p \in Sess : UnregisterLock(p)
    \/ \E p \in Sess : UnregisterDelete(p)
    \/ \E t \in CbThreads, kind \in {"write", "read"}, index \in Indexes, stream \in Streams :
           CallbackInvoke(t, kind, index, stream)
    \/ \E t \in CbThreads : CallbackWrite(t)
    \/ \E t \in CbThreads, ok \in BOOLEAN : CallbackRead(t, ok)
    \/ CapabilityQuery

Spec == Init /\ [][Next]_vars

\* one callback followed through the text it carries
InitText ==
    /\ InitProcess
    /\ text \in TextInputs
    /\ stdin = NoStdin

NextText ==
    \/ writeCallbackCap
    \/ writeStream
    \/ readStream
    \/ readCallbackReturn

SpecText == InitText /\ [][NextText]_vars

\* the read callbacks of one session, one after the other
InitStdin ==
    /\ InitProcess
    /\ text = NoText
    /\ stdin \in StdinInputs

NextStdin == readStreamNext

SpecStdin == InitStdin /\ [][NextStdin]_vars


\* ---- the claims ---------------------------------------------------------------

\* the transaction calls (all but the text lookup) operation op issued on p
IsTx(c) == c.fn # FnStrError
TxCalls(p, op) == SelectSeq(calls[p], LAMBDA c : IsTx(c) /\ c.op = op)

Buffers == {"conv", "service_name", "user"}

\* C1: the ids registerHandler returned are pairwise distinct positive
\* integers, and every one of them that has not been unregistered resolves
\* in the registry to the session that received it.
C1_DistinctIds ==
    \A p \in Sess :
        pam[p].handlerIndex # 0 =>
            /\ pam[p].handlerIndex > 0
            /\ \A q \in Sess \ {p} : pam[q].handlerIndex # pam[p].handlerIndex
            /\ pam[p].handlerIndex \notin deleted =>
                   /\ HasHandler(handlers, pam[p].handlerIndex)
                   /\ handlers[pam[p].handlerIndex] = p

\* every session holds an id and none has been unregistered
C1_Witness ==
    /\ \A p \in Sess : pam[p].handlerIndex > 0
    /\ deleted = {}

\* C2: unregisterHandler(id) removes the mapping of id and nothing else: id
\* no longer resolves, every other id resolves to the session it resolved
\* to, no id appears, and handlerCount is unchanged.
C2_UnregisterFrame ==
    [][\A p \in Sess :
          (pc[p] = "unreg_delete" /\ pc'[p] # "unreg_delete") =>
              /\ ~HasHandler(handlers', pam[p].handlerIndex)
              /\ DOMAIN handlers' = DOMAIN handlers \ {pam[p].handlerIndex}
              /\ \A k \in DOMAIN handlers' : handlers'[k] = handlers[k]
              /\ handlerCount' = handlerCount]_vars

\* one id has been unregistered while another one is registered
C2_Witness ==
    \E p \in Sess :
        /\ pam[p].handlerIndex \in deleted
        /\ \E k \in DOMAIN handlers : k # pam[p].handlerIndex

\* C3: a callback invoked with an index the registry does not hold returns
\* at once with the no-handler outcome: no stream of any session is read or
\* written, the registry is unchanged and the lock is free again.
C3_NoHandler ==
    [][\A t \in CbThreads :
          (cb[t].pc = "idle" /\ cb'[t] # cb[t] /\ ~HasHandler(handlers, cb'[t].index)) =>
              /\ cb'[t].pc = "idle"
              /\ cb'[t].res = "nohandler"
              /\ UNCHANGED <<handlers, handlerCount, writes, reads>>
              /\ handlerMu' = Nobody]_vars

\* a callback presented the id of a session that had been unregistered
C3_Witness ==
    \E t \in CbThreads :
        /\ cb[t].res = "nohandler"
        /\ cb[t].index \in deleted

\* C4: Open with a nil configuration returns no session and the
\* configuration error, having issued no native call, made no native
\* allocation and registered nothing.
C4_NilConfig ==
    \A p \in Sess :
        (pc[p] # "init" /\ config[p] = NilConfig) =>
            /\ openRes[p] = [returned |-> TRUE, session |-> FALSE, err |-> ErrConfig]
            /\ calls[p] = <<>>
            /\ allocs[p] = NoAlloc
            /\ pam[p].handlerIndex = 0
            /\ \A k \in DOMAIN handlers : handlers[k] # p
            /\ handlerMu # Host(p)

\* Open was called with a nil configuration while another session was open
C4_Witness ==
    \E p, q \in Sess :
        /\ pc[p] = "failed" /\ config[p] = NilConfig
        /\ pc[q] = "opened"

\* C5: the native calls of Open are a prefix of start, account-management,
\* open-session, and each one but the first is issued only after the one
\* before it returned success.
C5_OpenOrder ==
    \A p \in Sess :
        LET oc == TxCalls(p, 0)
        IN /\ Len(oc) <= 3
           /\ \A i \in 1..Len(oc) :
                 /\ oc[i].fn = <<FnStart, FnAcctMgmt, FnOpenSession>>[i]
                 /\ i > 1 => oc[i - 1].ret = PAM_SUCCESS

\* account-management failed and Open returned without opening a session
C5_Witness ==
    \E p \in Sess :
        /\ openRes[p].returned
        /\ Len(TxCalls(p, 0)) = 2
        /\ TxCalls(p, 0)[2].ret = PAM_SYSTEM_ERR

\* C6: every Close that has returned issued the transaction-end call and
\* released the conversation descriptor and both string buffers.
C6_CloseAlwaysEnds ==
    \A p \in Sess :
        \A k \in 1..Len(closeRes[p]) :
            /\ \E i \in 1..Len(calls[p]) : calls[p][i].op = k /\ calls[p][i].fn = FnEnd
            /\ \A b \in Buffers : frees[p][b] >= 1

\* C7: an operation one of whose native calls returned non-success issued
\* no further transaction call and returned a non-nil error; Open never
\* returns no session together with no error.
C7_FailureReported ==
    \A p \in Sess :
        /\ \A op \in 0..Len(closeRes[p]) :
              LET tc == TxCalls(p, op)
              IN \A i \in 1..Len(tc) :
                     tc[i].ret \notin {PAM_SUCCESS, Pending} =>
                         /\ i = Len(tc)
                         /\ op = 0 /\ openRes[p].returned => openRes[p].err # NoError
                         /\ op > 0 => closeRes[p][op] # NoError
        /\ (openRes[p].returned /\ ~openRes[p].session) => openRes[p].err # NoError

\* C8: whatever Close calls are made on a session, each of its three native
\* allocations is released at most once, and it has been released once the
\* teardown of the session has run.
C8_ReleasedExactlyOnce ==
    \A p \in Sess :
        \A b \in Buffers :
            /\ frees[p][b] <= 1
            /\ (pam[p].handlerIndex # 0 /\ pam[p].handlerIndex \in deleted) => frees[p][b] = 1

\* C9: no thread is in a stream read or write while it holds the registry
\* lock.
C9_NoIOUnderLock ==
    \A t \in CbThreads : cb[t].pc = "io" => handlerMu # Native(t)

\* C10: pam_authenticate is never called; the transaction calls issued are
\* start, account-management, open-session, close-session and end.
C10_NoAuthenticate ==
    \A p \in Sess :
        \A i \in 1..Len(calls[p]) :
            /\ calls[p][i].fn # FnAuthenticate
            /\ IsTx(calls[p][i]) =>
                   calls[p][i].fn \in {FnStart, FnAcctMgmt, FnOpenSession, FnCloseSession, FnEnd}

\* a session has been opened and closed, all five transaction calls issued
C10_Witness ==
    \E p \in Sess :
        {calls[p][i].fn : i \in 1..Len(calls[p])} =
            {FnStart, FnAcctMgmt, FnOpenSession, FnCloseSession, FnEnd}

\* C11: when the library load failed (dlopen returned no handle), no
\* session of the process has issued a native call.
C11_NoNativeWithoutLibrary ==
    pamHandle = NullHandle => \A p \in Sess : calls[p] = <<>>

\* C12: systemHasPAM is true exactly when the load returned a handle, and no
\* step of Open, Close, a callback or a capability query changes what
\* BuildHasPAM and SystemHasPAM return, or the library handle.
C12_StableCapabilities ==
    [][ /\ (SystemHasPAM <=> pamHandle # NullHandle)
        /\ BuildHasPAM
        /\ SystemHasPAM' = SystemHasPAM
        /\ BuildHasPAM' = BuildHasPAM
        /\ pamHandle' = pamHandle ]_vars

\* the load failed, and a session has since been opened, written to by a
\* callback and closed
C12_Witness ==
    /\ pamHandle = NullHandle
    /\ ~SystemHasPAM
    /\ \E p \in Sess :
          /\ Len(closeRes[p]) > 0
          /\ writes[p][Stdout] + writes[p][Stderr] > 0

\* the k-th Close of session p has returned and none of its native calls
\* returned a failure
CloseSucceeded(p, k) ==
    /\ k \in 1..Len(closeRes[p])
    /\ \A i \in 1..Len(TxCalls(p, k)) : TxCalls(p, k)[i].ret = PAM_SUCCESS

\* the number of _pam_end calls of session p that have returned success
EndedCount(p) ==
    Cardinality({i \in 1..Len(calls[p]) :
                    calls[p][i].fn = FnEnd /\ calls[p][i].ret = PAM_SUCCESS})

\* C13: a successful Close called close-session and then transaction-end,
\* handing it the status close-session returned; the three allocations are
\* released once transaction-end has returned and before the handler is
\* unregistered; after the Close the id no longer resolves; and while a
\* native call of a Close is outstanding the entry it will remove is still
\* in the registry.
C13_CloseOrder ==
    \A p \in Sess :
        /\ \A k \in 1..Len(closeRes[p]) :
              CloseSucceeded(p, k) =>
                  LET tc == TxCalls(p, k)
                  IN  /\ [i \in 1..Len(tc) |-> tc[i].fn] = <<FnCloseSession, FnEnd>>
                      /\ tc[2].arg = tc[1].ret
                      /\ \A b \in Buffers : frees[p][b] >= 1
                      /\ pam[p].handlerIndex \in deleted
                      /\ ~HasHandler(handlers, pam[p].handlerIndex)
        /\ \A b \in Buffers : frees[p][b] = EndedCount(p)
        /\ pc[p] \in {"unreg_lock", "unreg_delete"} =>
              /\ \A b \in Buffers : frees[p][b] >= 1
              /\ \A i \in 1..Len(calls[p]) : calls[p][i].ret # Pending
        /\ pam[p].handlerIndex \in deleted =>
              \A b \in Buffers : frees[p][b] >= 1
        /\ (pc[p] \in {"in_close_session", "in_end"}
               /\ pam[p].handlerIndex \notin deleted) =>
              /\ HasHandler(handlers, pam[p].handlerIndex)
              /\ handlers[pam[p].handlerIndex] = p

\* a Close has succeeded
C13_Witness ==
    \E p \in Sess : CloseSucceeded(p, 1) /\ Len(TxCalls(p, 1)) = 2

\* C17: a write callback that found a session writes once, to one stream of
\* that session and to nothing else: to stderr when the message style is
\* error-message, to stdout when it is text-info.
C17_WriteRouting ==
    [][ \A t \in CbThreads :
            (cb[t].pc = "io" /\ cb[t].kind = "write" /\ cb'[t].pc # "io") =>
                \E style \in Styles :
                    LET h == cb[t].handle
                        dest == IF style = PAM_ERROR_MSG THEN Stderr ELSE Stdout
                    IN  /\ cb[t].stream = StreamOfStyle(style)
                        /\ HasHandler(handlers, cb[t].index)
                        /\ handlers[cb[t].index] = h
                        /\ writes' = [writes EXCEPT ![h][dest] = @ + 1]
                        /\ reads' = reads ]_vars

\* two sessions are registered and an error message was written to the
\* stderr of one of them
C17_Witness ==
    \E p, q \in Sess :
        /\ p # q
        /\ HasHandler(handlers, pam[p].handlerIndex)
        /\ HasHandler(handlers, pam[q].handlerIndex)
        /\ writes[p][Stderr] = 1
        /\ writes[q][Stderr] = 0

\* C18: a read callback whose stream read fails returns nil to the native
\* side, neither a string nor a crash, releases handlerMu, and changes
\* neither the registry nor any session's transaction state.
C18_ReadFailure ==
    [][ \A t \in CbThreads :
            (cb[t].pc = "io" /\ cb[t].kind = "read" /\ cb'[t].pc # "io" /\ cb'[t].err) =>
                /\ cb'[t].res = "nil"
                /\ handlerMu = Native(t)
                /\ handlerMu' = Nobody
                /\ UNCHANGED <<handlerCount, handlers, deleted>>
                /\ UNCHANGED hostVars ]_vars

\* a read has failed while a session was between two native calls of Open
C18_Witness ==
    \E t \in CbThreads, p \in Sess :
        /\ cb[t].err
        /\ cb[t].res = "nil"
        /\ reads[p] = 1
        /\ pc[p] = "in_acct_mgmt"

\* Open is inside one of its three native calls
InOpenCalls == {"in_start", "in_acct_mgmt", "in_open_session"}

\* C19: when Open issues transaction-start the session is already in the
\* registry under the id held in its conversation descriptor; and while Open
\* is in start, account-management or open-session, that id belongs to no
\* other session, resolves to this session, and every callback invoked with
\* it finds this session.
C19_RegisteredBeforeStart ==
    [][ \A p \in Sess :
            /\ (pc[p] # "in_start" /\ pc'[p] = "in_start") =>
                  /\ pam[p].conv > 0
                  /\ HasHandler(handlers, pam[p].conv)
                  /\ handlers[pam[p].conv] = p
            /\ pc'[p] \in InOpenCalls =>
                  /\ pam'[p].conv > 0
                  /\ pam'[p].handlerIndex = pam'[p].conv
                  /\ HasHandler(handlers', pam'[p].conv)
                  /\ handlers'[pam'[p].conv] = p
                  /\ \A q \in Sess \ {p} : pam'[q].conv # pam'[p].conv
            /\ \A t \in CbThreads :
                  (/\ pc[p] \in InOpenCalls
                   /\ cb[t].pc = "idle"
                   /\ cb'[t] # cb[t]
                   /\ cb'[t].index = pam[p].conv) =>
                      /\ cb'[t].pc = "io"
                      /\ cb'[t].handle = p
                      /\ cb'[t].res # "nohandler" ]_vars

\* a callback carrying the id of the second session is in its stream
\* operation while that session's Open is inside transaction-start
C19_Witness ==
    \E t \in CbThreads :
        /\ pc[2] = "in_start"
        /\ pam[1].conv # 0
        /\ cb[t].pc = "io"
        /\ cb[t].index = pam[2].conv
        /\ cb[t].handle = 2

\* Open of session p has returned after one of its native calls failed
OpenFailedNative(p) ==
    /\ openRes[p].returned
    /\ \E i \in 1..Len(calls[p]) :
          /\ IsTx(calls[p][i])
          /\ calls[p][i].op = 0
          /\ calls[p][i].ret \notin {PAM_SUCCESS, Pending}

\* C20: an Open that failed in transaction-start, account-management or
\* open-session returned no session; transaction-end has not been called
\* for it and never is, the conversation descriptor and the two strings stay
\* allocated, its id stays in the registry resolving to it, and no Close is
\* ever run on it.
C20_FailedOpenLeaks ==
    \A p \in Sess :
        OpenFailedNative(p) =>
            /\ pc[p] = "failed"
            /\ ~openRes[p].session
            /\ \A i \in 1..Len(calls[p]) :
                  calls[p][i].fn # FnEnd /\ calls[p][i].op = 0
            /\ closeRes[p] = <<>>
            /\ \A b \in Buffers : allocs[p][b] = 1 /\ frees[p][b] = 0
            /\ pam[p].handlerIndex \notin deleted
            /\ HasHandler(handlers, pam[p].handlerIndex)
            /\ handlers[pam[p].handlerIndex] = p

\* Open failed in account-management after transaction-start had succeeded,
\* and a later callback with the id of the failed session still finds it
C20_Witness ==
    \E p \in Sess, t \in CbThreads :
        /\ OpenFailedNative(p)
        /\ Len(TxCalls(p, 0)) = 2
        /\ cb[t].pc = "io"
        /\ cb[t].index = pam[p].handlerIndex
        /\ cb[t].handle = p

\* the number of newlines among the first i characters of s
LFCount(s, i) == Cardinality({j \in 1..i : s[j] = LF})

\* C14: the bytes writeStream hands to the stream are its text with every
\* newline turned into carriage return + newline: each character of the
\* text appears, in order, shifted by the number of newlines up to it, each
\* newline has a carriage return put in front of it, nothing else is added,
\* and the number of newlines is the same.
C14_NewlineTranslation ==
    text.stage = "written" =>
        LET s == text.str
            out == text.out
        IN  /\ Len(out) = Len(s) + LFCount(s, Len(s))
            /\ \A i \in 1..Len(s) :
                  /\ out[i + LFCount(s, i)] = s[i]
                  /\ s[i] = LF => out[i + LFCount(s, i) - 1] = CR
            /\ LFCount(out, Len(out)) = LFCount(s, Len(s))

\* a text with two newlines and a carriage return of its own was written
C14_Witness ==
    /\ text.stage = "written"
    /\ text.str = <<"a", LF, CR, LF>>
    /\ text.out = <<"a", CR, LF, CR, CR, LF>>

\* C15 as stated: a message longer than PAM_MAX_MSG_SIZE is written as
\* exactly its first PAM_MAX_MSG_SIZE characters, and a message of at most
\* that length is not shortened.
C15_WrittenAsMaxMessage ==
    text.stage = "written" =>
        IF Len(text.src) > PAM_MAX_MSG_SIZE
        THEN text.out = SubSeq(text.src, 1, PAM_MAX_MSG_SIZE)
        ELSE Len(text.out) >= Len(text.src)

\* C15: the text handed to writeStream is the first PAM_MAX_MSG_SIZE
\* characters of a longer message and the whole of a shorter one; what is
\* written is that text with one carriage return more for each newline in
\* it, so exactly the text when it has no newline.
C15_WriteTruncation ==
    text.stage \in {"capped", "written"} =>
        LET m == text.src
            s == text.str
        IN  /\ Len(m) > PAM_MAX_MSG_SIZE => Len(s) = PAM_MAX_MSG_SIZE
            /\ Len(m) <= PAM_MAX_MSG_SIZE => s = m
            /\ \A i \in 1..Len(s) : s[i] = m[i]
            /\ text.stage = "written" =>
                  /\ Len(text.out) = Len(s) + LFCount(s, Len(s))
                  /\ LFCount(s, Len(s)) = 0 => text.out = s

\* a message longer than PAM_MAX_MSG_SIZE with a newline among its first
\* PAM_MAX_MSG_SIZE characters was written, as more than PAM_MAX_MSG_SIZE
\* characters
C15_Witness ==
    /\ text.stage = "written"
    /\ Len(text.src) > PAM_MAX_MSG_SIZE
    /\ LFCount(text.str, Len(text.str)) > 0
    /\ Len(text.out) > PAM_MAX_MSG_SIZE

\* C16: the C string readCallback returns holds at most
\* PAM_MAX_RESP_SIZE - 1 characters before its terminator: the first
\* PAM_MAX_RESP_SIZE - 1 characters of a longer line, the whole of a
\* shorter one.
C16_ReadTruncation ==
    (text.stage = "returned" /\ ~text.err) =>
        LET line == text.str
            n == Len(text.out) - 1
        IN  /\ n >= 0
            /\ text.out[n + 1] = NUL
            /\ n <= PAM_MAX_RESP_SIZE - 1
            /\ Len(line) > PAM_MAX_RESP_SIZE - 1 => n = PAM_MAX_RESP_SIZE - 1
            /\ Len(line) <= PAM_MAX_RESP_SIZE - 1 => n = Len(line)
            /\ \A i \in 1..n : text.out[i] = line[i]

\* a line two characters longer than PAM_MAX_RESP_SIZE was read and returned
C16_Witness ==
    /\ text.stage = "returned"
    /\ ~text.err
    /\ Len(text.str) = PAM_MAX_RESP_SIZE + 2
    /\ Len(text.out) = PAM_MAX_RESP_SIZE

\* C22: handlerCount never decreases and is at least every key of the
\* registry and every id a session holds; an id that enters the registry is
\* the current handlerCount, larger than every id registered or unregistered
\* before it; an entry is never rebound to another session; and an id that
\* was unregistered resolves to nothing from then on.
C22_IdsNeverReused ==
    [][ /\ handlerCount' >= handlerCount
        /\ \A id \in DOMAIN handlers' : id >= 1 /\ id <= handlerCount'
        /\ \A p \in Sess : pam'[p].handlerIndex <= handlerCount'
        /\ \A id \in DOMAIN handlers' \ DOMAIN handlers :
              /\ id = handlerCount'
              /\ \A old \in DOMAIN handlers \cup deleted : old < id
        /\ \A id \in DOMAIN handlers' \cap DOMAIN handlers :
              handlers'[id] = handlers[id]
        /\ \A id \in deleted' : ~HasHandler(handlers', id) ]_vars

\* the first session was unregistered, a later session is registered under
\* a larger id, and the stale id resolves to nothing
C22_Witness ==
    /\ pam[1].handlerIndex = 1
    /\ 1 \in deleted
    /\ ~HasHandler(handlers, 1)
    /\ pam[2].handlerIndex = 2
    /\ HasHandler(handlers, 2)
    /\ handlers[2] = 2

\* the whole content of the input stream
Content == Flatten(stdin.all, Len(stdin.all))

\* the k-th line of s, its newline included; s has at least k newlines
KthLine(s, k) ==
    LET end(n) == CHOOSE i \in 1..Len(s) : s[i] = LF /\ LFCount(s, i) = n
    IN  SubSeq(s, IF k = 1 THEN 1 ELSE end(k - 1) + 1, end(k))

\* C21: the k-th read callback on a session returns the k-th line of the
\* session's input stream, whatever the Read calls in which the stream
\* hands over its data.
C21_SuccessiveLines ==
    \A k \in 1..Len(stdin.got) :
        k <= LFCount(Content, Len(Content)) =>
            /\ ~stdin.got[k].err
            /\ stdin.got[k].str = KthLine(Content, k)

====
